---- MODULE Spec2Model ----
(***************************************************************************)
(* A model of the dependency_provider crate: the type-keyed provider map   *)
(* (src/src/lib.rs) and the process-wide registry behind a reader/writer   *)
(* lock (src/src/global_provider.rs).                                      *)
(***************************************************************************)
EXTENDS Integers, Sequences, FiniteSets, TLC

\* ------------------------------------------------------------------ bounds
\* closures a caller can register per type (T::default is factory 0)
MaxFactory == 2
\* factory invocations and mutations through fetched handles in one run
MaxGets == 2
\* calls into the global registry started in one run
MaxCalls == 3
\* registrations and removals kept in the log of one run
MaxOps == 3

\* ------------------------------------------------------------ value space
\* The dependency types of the tests: two plain types and Foo, whose values
\* are handles (Arc<Mutex<i32>>) to the static cell FOO.
Types == {"A", "B", "Foo"}

FactoryIds == 0..MaxFactory

\* A factory is a closure returning a value of its type; id 0 is T::default.
Factories == [type : Types, id : FactoryIds]

NoFactory == [type |-> "none", id |-> -1]

\* What a factory returns when it runs.
Product(f) ==
    [type |-> f.type, val |-> f.id,
     cell |-> IF f.type = "Foo" THEN "FOO" ELSE "none"]

None == [tag |-> "None"]
Some(v) == [tag |-> "Some", value |-> v]

\* --------------------------------------------------------------- lib.rs
\* ProviderFunction::new boxes the closure.
ProviderFunction_new(f) == f

\* call that hands out a value without running the closure
call_cached(pf) == [value |-> Product(pf), ran |-> <<>>]

\* ProviderFunction::call runs the boxed closure: the value it produced and
\* the closures that ran.
call(pf) == [value |-> Product(pf), ran |-> <<pf>>]

\* typemap: a map from the type's identity to the boxed value for it.
TypeMap_custom == <<>>

TypeMap_insert(m, k, v) == [x \in DOMAIN m \cup {k} |-> IF x = k THEN v ELSE m[x]]

TypeMap_remove(m, k) == [x \in DOMAIN m \ {k} |-> m[x]]

TypeMap_get(m, k) == IF k \in DOMAIN m THEN Some(m[k]) ELSE None

\* DependencyProvider::new
new == TypeMap_custom

\* register that keeps the slot it finds (first registration wins)
register_first_wins(self, f) ==
    IF f.type \in DOMAIN self THEN self
    ELSE TypeMap_insert(self, f.type, ProviderFunction_new(f))

\* DependencyProvider::register: the key is the closure's return type.
register(self, f) == TypeMap_insert(self, f.type, ProviderFunction_new(f))

\* register_default that keeps a provider function it finds for T
register_default_if_absent(self, T) ==
    IF T \in DOMAIN self THEN self
    ELSE TypeMap_insert(self, T, ProviderFunction_new([type |-> T, id |-> 0]))

\* DependencyProvider::register_default
register_default(self, T) ==
    TypeMap_insert(self, T, ProviderFunction_new([type |-> T, id |-> 0]))

\* unregister that removes under another key than the one register inserts
\* under, and so removes nothing
unregister_other_key(self, T) == self

\* unregister that flips the slot: it fills an empty one with T::default
unregister_toggle(self, T) ==
    IF T \in DOMAIN self THEN TypeMap_remove(self, T)
    ELSE TypeMap_insert(self, T, ProviderFunction_new([type |-> T, id |-> 0]))

\* unregister that clears the whole map
unregister_clear(self, T) == TypeMap_custom

\* DependencyProvider::unregister
unregister(self, T) == TypeMap_remove(self, T)

\* get that takes whatever slot it finds first, whatever its key
get_any_slot(self, T) ==
    IF DOMAIN self = {}
    THEN [out |-> None, ran |-> <<>>]
    ELSE LET k == CHOOSE x \in DOMAIN self : TRUE
             r == call(self[k])
         IN  [out |-> Some(r.value), ran |-> r.ran]

\* DependencyProvider::get: Option::map of call over the looked-up slot.
get(self, T) ==
    LET slot == TypeMap_get(self, T)
    IN  IF slot.tag = "Some"
        THEN LET r == call(slot.value) IN [out |-> Some(r.value), ran |-> r.ran]
        ELSE [out |-> None, ran |-> <<>>]

\* Every provider a chain of registrations can build.
Providers ==
    {m \in UNION {[S -> Factories] : S \in SUBSET Types} :
        \A k \in DOMAIN m : m[k].type = k}

\* ---------------------------------------------------- global_provider.rs
\* Two threads: a reader next to a writer, two readers, or two writers.
Threads == {1, 2}

NoThread == 0

\* The providers handed to init: the chains of registrations of the tests
\* (|| A, || B(0)) and of the doc-test (|| B(42)); Foo is never registered.
GlobalProviders ==
    LET fA == [type |-> "A", id |-> 1]
        fB0 == [type |-> "B", id |-> 1]
        fB42 == [type |-> "B", id |-> 2]
    IN  {new, register(new, fA), register(new, fB0), register(new, fB42),
         register(register(new, fA), fB0), register(register(new, fA), fB42)}

\* A panic message is the sequence of the pieces of its text.
UseBeforeInitMsg ==
    <<"tried to use global dependency provider without calling init()">>

\* The message of inject! is the string literal of the macro as written:
\* macro_rules! substitutes $t where it is a token of its own, and a string
\* literal is one token, so the text keeps "$t" for every type.
NoProviderMsg == <<"No provider function registered for dependency ", "$t">>

PoisonMsg == <<"PoisonError">>

\* The message of RwLock::write when it finds that the calling thread holds
\* the lock already.
WouldDeadlockMsg == <<"rwlock write lock would result in deadlock">>

\* The message of a panic raised inside a registered closure.
ClosurePanicMsg == <<"closure panicked">>

Unit == [tag |-> "Unit"]

\* How a call ended: it returned a value or it unwound with a message.
Pending == [kind |-> "pending"]
Returned(v) == [kind |-> "return", value |-> v]
Panicked(msg) == [kind |-> "panic", msg |-> msg]

\* a flag set by the unwinding of any guard, as the flag of a Mutex is
poison_on_any_unwind(p, w, t) == TRUE

\* The poison flag after thread t unwinds through its guard: the flag of an
\* RwLock is set by a write guard dropped during a panic, never by a read
\* guard.
poison_on_unwind(p, w, t) == p \/ w = t

\* a write lock that waits for the writer only, not for the readers
write_ignores_readers(w, rs) == w = NoThread

\* RwLock::write returns once no guard of either kind is out.
write_available(w, rs) == w = NoThread /\ rs = {}

\* read that does not wait for the writer
read_unguarded(w, rs) == TRUE

\* read that waits for every other guard, as the lock of a Mutex would
read_exclusive(w, rs) == w = NoThread /\ rs = {}

\* RwLock::read returns once no write guard is out, however many read guards
\* (rs) are.
read_available(w, rs) == w = NoThread

\* replace that fills the holder only while it is empty
replace_if_empty(self, provider) ==
    [cell |-> IF self.tag = "None" THEN Some(provider) ELSE self, old |-> None]

\* replace that adds the new registrations to the old ones
replace_merge(self, provider) ==
    [cell |-> IF self.tag = "None" THEN Some(provider)
              ELSE Some([k \in DOMAIN self.value \cup DOMAIN provider |->
                            IF k \in DOMAIN provider THEN provider[k]
                            ELSE self.value[k]]),
     old |-> self]

\* replace that leaves the holder empty (Option::take)
replace_take(self, provider) == [cell |-> None, old |-> self]

\* Option::replace, the body of init: the new content of the holder and the
\* old one, which init drops.
replace(self, provider) == [cell |-> Some(provider), old |-> self]

\* taking the content out of the holder (Option::take) to look at it
as_ref_take(self) == [cell |-> None, ref |-> self]

\* Option::as_ref: a shared borrow of the content; the holder keeps it.
as_ref(self) == [cell |-> self, ref |-> self]

\* The holder while Option::replace writes it: not a value a reader may see.
Torn(before, after) == [tag |-> "Torn", old |-> before, new |-> after]

\* What a read of the holder can yield: the holder itself, or, racing with
\* the write of Option::replace, any mixture of the old and the new bytes.
Observe(h) ==
    IF h.tag = "Torn"
    THEN {None, h.old, h.new}
         \cup {Some(m) : m \in
                {x \in GlobalProviders :
                    \A k \in DOMAIN x :
                        \/ h.old.tag = "Some" /\ k \in DOMAIN h.old.value
                                              /\ x[k] = h.old.value[k]
                        \/ k \in DOMAIN h.new.value /\ x[k] = h.new.value[k]}}
    ELSE {h}

\* get_dependency that takes an empty holder for a missing registration
get_dependency_lenient(h, T) ==
    IF h.tag = "None"
    THEN [panic |-> FALSE, msg |-> <<>>, out |-> None, ran |-> <<>>]
    ELSE LET r == get(h.value, T)
         IN  [panic |-> FALSE, msg |-> <<>>, out |-> r.out, ran |-> r.ran]

\* get_dependency past the lock: as_ref().expect(..) on the holder, then
\* DependencyProvider::get on the provider in it.
get_dependency(h, T) ==
    IF h.tag = "None"
    THEN [panic |-> TRUE, msg |-> UseBeforeInitMsg, out |-> None, ran |-> <<>>]
    ELSE LET r == get(h.value, T)
         IN  [panic |-> FALSE, msg |-> <<>>, out |-> r.out, ran |-> r.ran]

\* inject! without the expect: the binding takes whatever came back
inject_unchecked(out) == Returned(out)

\* inject!: expect(..) on what get_dependency returned.
inject(out) ==
    IF out.tag = "None" THEN Panicked(NoProviderMsg) ELSE Returned(out.value)

\* ------------------------------------------------------------------ state
VARIABLES
    d,          \* a DependencyProvider owned by the caller: its providers map
    last,       \* the caller's most recent operation on d and what it returned
    ncalls,     \* how many times a registered closure has run
    FOO,        \* the static cell behind every Foo handle (tests::shared_ref)
    hist,       \* history: per type, the factory of the latest register (f),
                \* the one registered right before the latest operation
                \* (prev), and whether that operation was an unregister
    nsome,      \* history: how many get calls returned Some
    nmut,       \* history: how many increments went through a fetched handle
    holder,     \* GLOBAL_PROVIDER's content: Option<DependencyProvider>
    writer,     \* the thread holding GLOBAL_PROVIDER's write guard, if any
    readers,    \* the threads holding a read guard of GLOBAL_PROVIDER
    poisoned,   \* GLOBAL_PROVIDER's poison flag
    pc,         \* per thread: where it is in init / get_dependency / inject!
    arg,        \* per thread: the call it is in and its argument
    run,        \* per thread: the DependencyProvider::get it is inside
    ret,        \* the call that ended last: its thread, its argument, its outcome
    started,    \* calls into the global registry started so far
    installed,  \* history: the provider of the latest completed init
    dropped,    \* history: the holder content the latest completed init dropped
    trail       \* history: the log of the specifications that keep one

localVars == <<d, last, ncalls, FOO, hist, nsome, nmut>>

lockVars == <<writer, readers, poisoned>>

globalVars == <<holder, lockVars, pc, arg, run, ret, started, installed, dropped>>

vars == <<localVars, globalVars, trail>>

NoHist == [f |-> NoFactory, prev |-> NoFactory, removed |-> FALSE]

Op(op, T, out, invoked) == [op |-> op, T |-> T, out |-> out, invoked |-> invoked]

InitLocal ==
    /\ d = new
    /\ last = Op("new", "none", None, NoFactory)
    /\ ncalls = 0
    /\ FOO = 0
    /\ hist = [T \in Types |-> NoHist]
    /\ nsome = 0
    /\ nmut = 0

\* let d = d.register(f)
Registering(f) ==
    /\ d' = register(d, f)
    /\ last' = Op("register", f.type, None, f)
    /\ hist' = [hist EXCEPT ![f.type] =
                    [f |-> f, prev |-> hist[f.type].f, removed |-> FALSE]]
    /\ UNCHANGED <<ncalls, FOO, nsome, nmut, globalVars>>

Register(f) == Registering(f) /\ UNCHANGED trail

\* let d = d.register_default::<T>()
RegisteringDefault(T) ==
    /\ d' = register_default(d, T)
    /\ last' = Op("register_default", T, None, [type |-> T, id |-> 0])
    /\ hist' = [hist EXCEPT ![T] =
                    [f |-> [type |-> T, id |-> 0], prev |-> hist[T].f,
                     removed |-> FALSE]]
    /\ UNCHANGED <<ncalls, FOO, nsome, nmut, globalVars>>

RegisterDefault(T) == RegisteringDefault(T) /\ UNCHANGED trail

\* d.unregister::<T>()
Unregistering(T) ==
    /\ d' = unregister(d, T)
    /\ last' = Op("unregister", T, None, NoFactory)
    /\ hist' = [hist EXCEPT ![T] =
                    [f |-> NoFactory, prev |-> hist[T].f, removed |-> TRUE]]
    /\ UNCHANGED <<ncalls, FOO, nsome, nmut, globalVars>>

Unregister(T) == Unregistering(T) /\ UNCHANGED trail

\* let x = d.get::<T>()
Get(T) ==
    /\ ncalls < MaxGets
    /\ LET r == get(d, T)
       IN  /\ last' = Op("get", T, r.out,
                         IF Len(r.ran) = 0 THEN NoFactory ELSE r.ran[Len(r.ran)])
           /\ ncalls' = ncalls + Len(r.ran)
           /\ nsome' = IF r.out.tag = "Some" THEN nsome + 1 ELSE nsome
    /\ UNCHANGED <<d, FOO, hist, nmut, globalVars, trail>>

\* *x.0.lock().unwrap() += 1 through the handle the last get returned
Increment ==
    /\ nmut < MaxGets
    /\ last.op = "get"
    /\ last.out.tag = "Some"
    /\ last.out.value.cell = "FOO"
    /\ FOO' = FOO + 1
    /\ nmut' = nmut + 1
    /\ UNCHANGED <<d, last, ncalls, hist, nsome, globalVars, trail>>

\* The same operations with every registration and removal written to the
\* log, in the order they were made.
LogRegister(f) ==
    /\ Len(trail) < MaxOps
    /\ Registering(f)
    /\ trail' = Append(trail, Op("register", f.type, None, f))

LogRegisterDefault(T) ==
    /\ Len(trail) < MaxOps
    /\ RegisteringDefault(T)
    /\ trail' = Append(trail, Op("register_default", T, None,
                                 [type |-> T, id |-> 0]))

LogUnregister(T) ==
    /\ Len(trail) < MaxOps
    /\ Unregistering(T)
    /\ trail' = Append(trail, Op("unregister", T, None, NoFactory))

\* a read guard released once the slot is found, before the closure runs
guard_released_at_call(rs, t) == rs \ {t}

\* The read guard when get_dependency calls the closure: the guard is a
\* temporary of the function's tail expression, which lives until that
\* expression is evaluated, so it is still out.
guard_at_call(rs, t) == rs

\* a read guard that is never released
leak_read_guard(rs, t) == rs

\* The read guard of get_dependency goes out of scope: on return and on
\* unwinding alike.
drop_read_guard(rs, t) == rs \ {t}

NoArg == [call |-> "none"]

Ended(t, a, outcome) == [thread |-> t, arg |-> a, outcome |-> outcome]

NoRun == [out |-> None, ran |-> <<>>]

InitGlobal ==
    /\ holder = None
    /\ writer = NoThread
    /\ readers = {}
    /\ poisoned = FALSE
    /\ pc = [t \in Threads |-> "idle"]
    /\ arg = [t \in Threads |-> NoArg]
    /\ run = [t \in Threads |-> NoRun]
    /\ ret = Ended(NoThread, NoArg, Pending)
    /\ started = 0
    /\ installed = None
    /\ dropped = None
    /\ trail = <<>>

\* Thread t is in a call made by the closure its get_dependency is running.
Nested(t) == "within" \in DOMAIN arg[t]

\* A call ends: the thread is idle again and the caller has the outcome; a
\* call made by a running closure returns into that closure, and its panic
\* unwinds the closure and the get_dependency around it as well.
Finish(t, outcome) ==
    /\ ret' = Ended(t, arg[t], outcome)
    /\ IF Nested(t) /\ outcome.kind = "return"
       THEN /\ pc' = [pc EXCEPT ![t] = "get_call"]
            /\ arg' = [arg EXCEPT ![t] = arg[t].within]
            /\ UNCHANGED run
       ELSE /\ pc' = [pc EXCEPT ![t] = "idle"]
            /\ arg' = [arg EXCEPT ![t] = NoArg]
            /\ run' = [run EXCEPT ![t] = NoRun]

\* thread t calls init(provider)
StartInit(t, provider) ==
    /\ pc[t] = "idle"
    /\ started < MaxCalls
    /\ started' = started + 1
    /\ pc' = [pc EXCEPT ![t] = "init_write"]
    /\ arg' = [arg EXCEPT ![t] = [call |-> "init", provider |-> provider]]
    /\ UNCHANGED <<localVars, trail, holder, lockVars, run, ret, installed,
                   dropped>>

\* GLOBAL_PROVIDER.write().unwrap()
WriteLock(t) ==
    /\ pc[t] = "init_write"
    /\ write_available(writer, readers)
    /\ IF poisoned
       THEN /\ Finish(t, Panicked(PoisonMsg))
            /\ readers' = drop_read_guard(readers, t)
            /\ UNCHANGED writer
       ELSE /\ writer' = t
            /\ pc' = [pc EXCEPT ![t] = "init_replace"]
            /\ UNCHANGED <<arg, run, ret, readers>>
    /\ UNCHANGED <<localVars, trail, holder, poisoned, started, installed,
                   dropped>>

\* Option::replace starts to write the holder
ReplaceBegin(t) ==
    /\ pc[t] = "init_replace"
    /\ holder' = Torn(holder, Some(arg[t].provider))
    /\ pc' = [pc EXCEPT ![t] = "init_store"]
    /\ UNCHANGED <<localVars, trail, lockVars, arg, run, ret, started, installed,
                   dropped>>

\* Option::replace has written the holder; the old content and then the
\* write guard are dropped, and init returns
ReplaceEnd(t) ==
    /\ pc[t] = "init_store"
    /\ LET r == replace(holder.old, arg[t].provider)
       IN  /\ holder' = r.cell
           /\ dropped' = r.old
    /\ installed' = Some(arg[t].provider)
    /\ writer' = IF writer = t THEN NoThread ELSE writer
    /\ Finish(t, Returned(Unit))
    /\ UNCHANGED <<localVars, trail, readers, poisoned, started>>

\* thread t calls get_dependency::<T>() or inject!(let x: T)
StartGet(t, call_, T) ==
    /\ pc[t] = "idle"
    /\ started < MaxCalls
    /\ started' = started + 1
    /\ pc' = [pc EXCEPT ![t] = "get_read"]
    /\ arg' = [arg EXCEPT ![t] = [call |-> call_, T |-> T]]
    /\ UNCHANGED <<localVars, trail, holder, lockVars, run, ret, installed,
                   dropped>>

\* GLOBAL_PROVIDER.read().unwrap()
ReadLock(t) ==
    /\ pc[t] = "get_read"
    /\ read_available(writer, readers)
    /\ IF poisoned
       THEN /\ Finish(t, Panicked(PoisonMsg))
            /\ UNCHANGED readers
       ELSE /\ readers' = readers \cup {t}
            /\ pc' = [pc EXCEPT ![t] = "get_lookup"]
            /\ UNCHANGED <<arg, run, ret>>
    /\ UNCHANGED <<localVars, trail, holder, writer, poisoned, started,
                   installed, dropped>>

\* What the caller of get_dependency / inject! ends with.
Outcome(call_, out) == IF call_ = "inject" THEN inject(out) ELSE Returned(out)

\* .as_ref().expect(..) and the lookup of DependencyProvider::get: a panic
\* unwinds (the read guard is dropped, a read guard poisons nothing), an
\* absent slot returns None, a present one starts its closure
Lookup(t) ==
    /\ pc[t] = "get_lookup"
    /\ \E h \in Observe(holder) :
         LET r == get_dependency(h, arg[t].T)
         IN  IF r.panic
             THEN /\ Finish(t, Panicked(r.msg))
                  /\ readers' = drop_read_guard(readers, t)
                  /\ poisoned' = poison_on_unwind(poisoned, writer, t)
             ELSE IF r.ran = <<>>
             THEN /\ Finish(t, Outcome(arg[t].call, r.out))
                  /\ readers' = drop_read_guard(readers, t)
                  /\ UNCHANGED poisoned
             ELSE /\ pc' = [pc EXCEPT ![t] = "get_call"]
                  /\ run' = [run EXCEPT ![t] = [out |-> r.out, ran |-> r.ran]]
                  /\ readers' = guard_at_call(readers, t)
                  /\ UNCHANGED <<arg, ret, poisoned>>
    /\ holder' = as_ref(holder).cell
    /\ UNCHANGED <<localVars, trail, writer, started, installed, dropped>>

\* the closure returns; get_dependency drops the read guard and returns
FactoryReturn(t) ==
    /\ pc[t] = "get_call"
    /\ ncalls' = ncalls + Len(run[t].ran)
    /\ readers' = drop_read_guard(readers, t)
    /\ Finish(t, Outcome(arg[t].call, run[t].out))
    /\ UNCHANGED <<d, last, FOO, hist, nsome, nmut, holder, writer, poisoned,
                   started, installed, dropped, trail>>

\* the closure being run for thread t calls init(provider)
FactoryCallsInit(t, provider) ==
    /\ pc[t] = "get_call"
    /\ started < MaxCalls
    /\ started' = started + 1
    /\ pc' = [pc EXCEPT ![t] = "init_write"]
    /\ arg' = [arg EXCEPT ![t] =
                  [call |-> "init", provider |-> provider, within |-> arg[t]]]
    /\ UNCHANGED <<localVars, trail, holder, lockVars, run, ret, installed,
                   dropped>>

\* RwLock::write called by a thread that holds a read guard of the lock: the
\* call waits for that guard for ever (WriteLock is never enabled), or, where
\* the lock finds the cycle, panics; the panic unwinds init, the closure and
\* get_dependency, whose read guard is dropped.
WriteLockRefused(t) ==
    /\ pc[t] = "init_write"
    /\ t \in readers
    /\ Finish(t, Panicked(WouldDeadlockMsg))
    /\ readers' = drop_read_guard(readers, t)
    /\ poisoned' = poison_on_unwind(poisoned, writer, t)
    /\ UNCHANGED <<localVars, trail, holder, writer, started, installed,
                   dropped>>

\* the closure panics instead of returning: the panic unwinds through get
\* and get_dependency, whose read guard is dropped
FactoryPanic(t) ==
    /\ pc[t] = "get_call"
    /\ ncalls' = ncalls + Len(run[t].ran)
    /\ readers' = drop_read_guard(readers, t)
    /\ poisoned' = poison_on_unwind(poisoned, writer, t)
    /\ Finish(t, Panicked(ClosurePanicMsg))
    /\ trail' = Append(trail, Op("panic", arg[t].T, None, run[t].ran[1]))
    /\ UNCHANGED <<d, last, FOO, hist, nsome, nmut, holder, writer, started,
                   installed, dropped>>

\* The steps of a call that is under way.
ThreadStep(t) ==
    \/ WriteLock(t)
    \/ ReplaceBegin(t)
    \/ ReplaceEnd(t)
    \/ ReadLock(t)
    \/ Lookup(t)
    \/ FactoryReturn(t)

NextGlobal ==
    \/ \E t \in Threads, m \in GlobalProviders : StartInit(t, m)
    \/ \E t \in Threads, T \in Types : StartGet(t, "get_dependency", T)
    \/ \E t \in Threads, T \in Types : StartGet(t, "inject", T)
    \/ \E t \in Threads : WriteLock(t)
    \/ \E t \in Threads : ReplaceBegin(t)
    \/ \E t \in Threads : ReplaceEnd(t)
    \/ \E t \in Threads : ReadLock(t)
    \/ \E t \in Threads : Lookup(t)
    \/ \E t \in Threads : FactoryReturn(t)

Init == InitLocal /\ InitGlobal

\* A caller building and using its own DependencyProvider.
Next ==
    \/ \E f \in {g \in Factories : g.id # 0} : Register(f)
    \/ \E T \in Types : RegisterDefault(T)
    \/ \E T \in Types : Unregister(T)
    \/ \E T \in Types : Get(T)
    \/ Increment

\* A caller building its own DependencyProvider, with the log kept.
NextTrail ==
    \/ \E f \in {g \in Factories : g.id # 0} : LogRegister(f)
    \/ \E T \in Types : LogRegisterDefault(T)
    \/ \E T \in Types : LogUnregister(T)
    \/ \E T \in Types : Get(T)

SpecTrail == Init /\ [][NextTrail]_vars

Spec == Init /\ [][Next]_vars

\* Threads calling into the global registry.
SpecGlobal == Init /\ [][NextGlobal]_vars

\* Threads calling into the global registry, with closures that may panic.
NextAbort ==
    \/ NextGlobal
    \/ \E t \in Threads : FactoryPanic(t)

SpecAbort == Init /\ [][NextAbort]_vars

\* Threads calling into the global registry, with closures that may call
\* init.
NextReentrant ==
    \/ NextGlobal
    \/ \E t \in Threads, m \in GlobalProviders : FactoryCallsInit(t, m)
    \/ \E t \in Threads : WriteLockRefused(t)

SpecReentrant == Init /\ [][NextReentrant]_vars

\* The same under a scheduler that lets every thread that can step do so.
FairSpecGlobal == SpecGlobal /\ \A t \in Threads : WF_vars(ThreadStep(t))

\* ------------------------------------------------------------------ claims
\* What get::<T>() is due for the registrations made for T alone.
Due(T) == IF hist[T].f = NoFactory THEN None ELSE Some(Product(hist[T].f))

\* C1 Registration precedence: while the latest operation on T is a register
\* of f (after register(f1), register(f2): f = f2), get::<T>() runs f and only
\* f and returns f's product; the factory registered before it never runs.
C1_RegistrationPrecedence ==
    \A T \in Types :
        hist[T].f # NoFactory =>
            /\ get(d, T) = [out |-> Some(Product(hist[T].f)), ran |-> <<hist[T].f>>]
            /\ (last.op = "get" /\ last.T = T) =>
                    /\ last.invoked = hist[T].f
                    /\ last.out = Some(Product(hist[T].f))

\* a get::<T>() that ran f2 after register(f1), register(f2), f1 # f2
C1_Witness ==
    \E T \in Types :
        /\ hist[T].f.id > 0 /\ hist[T].prev.id > 0
        /\ hist[T].prev # hist[T].f
        /\ last.op = "get" /\ last.T = T
        /\ last.invoked = hist[T].f

\* C2 Type isolation: get::<T>() is Some(product of the factory currently
\* registered for T) when T is registered and None when it is not, whatever
\* is registered for the other types; it has no other outcome.
C2_TypeIsolation ==
    /\ \A T \in Types :
          /\ get(d, T).out = Due(T)
          /\ (T \in DOMAIN d) <=> (hist[T].f # NoFactory)
    /\ last.op = "get" => last.out = Due(last.T)

\* get::<Foo>() returned None while A and B were registered, and a get of a
\* registered type is possible next to another registered type
C2_Witness ==
    /\ last.op = "get" /\ last.T = "Foo" /\ last.out = None
    /\ DOMAIN d = {"A", "B"}
    /\ get(d, "A").out # get(d, "B").out

\* C3 After unregister::<T>(), get::<T>() is None until T is registered again,
\* and the unregister leaves the slot and the get of every other type as
\* they were.
C3_UnregisterFrame ==
    /\ [](\A T \in Types : hist[T].removed => get(d, T).out = None)
    /\ [][last'.op = "unregister" =>
            \A U \in Types \ {last'.T} :
                /\ (U \in DOMAIN d') <=> (U \in DOMAIN d)
                /\ U \in DOMAIN d => d'[U] = d[U]
                /\ get(d', U) = get(d, U)]_vars

\* a registered type was unregistered and get returned None for it, while
\* another type is still registered
C3_Witness ==
    \E T \in Types, U \in Types :
        /\ U # T
        /\ hist[T].removed /\ hist[T].prev # NoFactory
        /\ U \in DOMAIN d
        /\ last.op = "get" /\ last.T = T /\ last.out = None

\* C4 Fresh invocation per call: every get that returned Some ran the
\* registered closure once (n such gets, n runs), the closure that ran is the
\* registered one, and the cell behind the fetched handles holds every
\* increment made through them.
C4_FreshInvocation ==
    /\ ncalls = nsome
    /\ FOO = nmut
    /\ (last.op = "get" /\ last.out.tag = "Some") => last.invoked = d[last.T]

\* a counter fetched and incremented twice holds 2
C4_Witness ==
    /\ ncalls = 2 /\ nsome = 2
    /\ nmut = 2 /\ FOO = 2
    /\ last.op = "get" /\ last.T = "Foo"

\* What get_dependency::<T>() is due while provider m is installed.
DueOf(m, T) == IF T \in DOMAIN m THEN Some(Product(m[T])) ELSE None

\* Thread t is between taking and releasing its read guard.
Reading(t) == pc[t] \in {"get_lookup", "get_call"}

\* C5 Global init/get round trip: once an init has completed, a
\* get_dependency::<T>() returns what the provider of the latest completed
\* init holds for T: Some(product of its factory for T), or None when T is
\* not registered in it.
C5_InitGetRoundTrip ==
    [][\A t \in Threads :
          (/\ Reading(t) /\ pc'[t] = "idle"
           /\ arg[t].call = "get_dependency"
           /\ installed.tag = "Some")
          => ret' = Ended(t, arg[t],
                          Returned(DueOf(installed.value, arg[t].T)))]_vars

\* after init(register(register(new, || A), || B(..))), a get_dependency of
\* the registered type B returned Some
C5_Witness ==
    /\ installed.tag = "Some"
    /\ DOMAIN installed.value = {"A", "B"}
    /\ ret.arg = [call |-> "get_dependency", T |-> "B"]
    /\ ret.outcome.kind = "return"
    /\ ret.outcome.value.tag = "Some"

\* C6 Use before init aborts: a get_dependency::<T>() that reads the holder
\* while no init has ever completed does not return; it panics with the
\* use-before-init message.
C6_UseBeforeInitAborts ==
    [][\A t \in Threads :
          (/\ pc[t] = "get_lookup" /\ pc'[t] # "get_lookup"
           /\ arg[t].call = "get_dependency"
           /\ installed.tag = "None")
          => /\ pc'[t] = "idle"
             /\ ret' = Ended(t, arg[t], Panicked(UseBeforeInitMsg))]_vars

\* a get_dependency panicked in a registry that was never initialized
C6_Witness ==
    /\ installed.tag = "None"
    /\ ret.arg.call = "get_dependency"
    /\ ret.outcome = Panicked(UseBeforeInitMsg)

\* C7 Re-initialization replaces wholesale: outside the write of an init,
\* the holder is the provider of the latest completed init and nothing
\* else (no registration of an earlier provider survives), so
\* get_dependency::<T>() is decided by that provider alone for every T.
C7_ReinitReplaces ==
    (installed.tag = "Some" /\ holder.tag # "Torn") =>
        /\ holder = installed
        /\ \A T \in Types :
              LET r == get_dependency(holder, T)
              IN  ~r.panic /\ r.out = DueOf(installed.value, T)

\* after init(m1), init(m2): a type registered in m1 only is None, and a type
\* is registered in both with different factories
C7_Witness ==
    /\ installed.tag = "Some" /\ dropped.tag = "Some"
    /\ ret.arg.call = "get_dependency"
    /\ ret.arg.T \in DOMAIN dropped.value \ DOMAIN installed.value
    /\ ret.outcome = Returned(None)
    /\ \E U \in DOMAIN dropped.value \cap DOMAIN installed.value :
          dropped.value[U] # installed.value[U]

\* C8 The registry never returns to Uninitialized: once an init has
\* completed the holder is never empty again, and no call that ends
\* afterwards ends with the use-before-init panic.
C8_NeverUninitializedAgain ==
    /\ [](installed.tag = "Some" => holder.tag # "None")
    /\ [][installed.tag = "Some" =>
            /\ holder'.tag # "None"
            /\ \A t \in Threads :
                  (pc[t] # "idle" /\ pc'[t] = "idle")
                  => ret'.outcome # Panicked(UseBeforeInitMsg)]_vars

\* after two inits, a call panicked (inject! of a missing type)
C8_Witness ==
    /\ installed.tag = "Some" /\ dropped.tag = "Some"
    /\ ret.arg.call = "inject" /\ ret.outcome.kind = "panic"

\* C9 Atomic replacement: a get_dependency between taking and releasing its
\* read guard never finds the holder half written, and once an init has
\* completed it finds the whole provider of the latest completed init (the
\* old one or the new one, by the order of the lock), never an empty holder
\* or a mixture; the closure it runs is that provider's.
C9_AtomicReplacement ==
    \A t \in Threads :
        Reading(t) =>
            /\ holder.tag # "Torn"
            /\ installed.tag = "Some" =>
                  /\ holder = installed
                  /\ pc[t] = "get_call" =>
                        run[t].out = DueOf(installed.value, arg[t].T)

\* a get_dependency is inside its closure on m1 while an init(m2), m2 # m1,
\* waits for the lock
C9_Witness ==
    \E r \in Threads, w \in Threads :
        /\ pc[r] = "get_call"
        /\ pc[w] = "init_write"
        /\ installed.tag = "Some"
        /\ arg[w].provider # installed.value

\* Some call is under way and no thread can take a step.
Deadlocked ==
    /\ \E t \in Threads : pc[t] # "idle"
    /\ \A t \in Threads : ~ENABLED ThreadStep(t)

\* C10 Deadlock freedom: no reachable state is a deadlock, and under a
\* scheduler that lets every thread that can step do so, every started init,
\* get_dependency and inject! ends (returns or panics).
C10_DeadlockFreedom ==
    /\ []~Deadlocked
    /\ \A t \in Threads : (pc[t] # "idle") ~> (pc[t] = "idle")

\* an init waits for a reader that is inside its closure, after another
\* call has ended
C10_Witness ==
    \E w \in Threads, r \in Threads :
        /\ pc[w] = "init_write"
        /\ pc[r] = "get_call" /\ r \in readers
        /\ ret.outcome # Pending

\* C11 inject!(let x: T) / inject!(let mut x: T) ends normally exactly when
\* an init has completed and T is registered in the provider of the latest
\* completed init, and then x is the product of T's factory; with a provider
\* lacking T, and before any init, it panics.
C11_InjectOutcome ==
    [][\A t \in Threads :
          (Reading(t) /\ pc'[t] = "idle" /\ arg[t].call = "inject")
          => ret' = Ended(t, arg[t],
                 IF installed.tag = "None"
                 THEN Panicked(UseBeforeInitMsg)
                 ELSE IF arg[t].T \in DOMAIN installed.value
                 THEN Returned(Product(installed.value[arg[t].T]))
                 ELSE Panicked(NoProviderMsg))]_vars

\* an inject! of a registered type bound the product of its factory
C11_Witness ==
    /\ installed.tag = "Some"
    /\ ret.arg.call = "inject"
    /\ ret.arg.T \in DOMAIN installed.value
    /\ ret.outcome = Returned(Product(installed.value[ret.arg.T]))

\* The text of a message has the name of type T in it.
Names(msg, T) == \E i \in DOMAIN msg : msg[i] = T

\* C12 Every abort carries a message that identifies its cause: a call before
\* init fails with the fixed never-initialized message, and an inject! of a
\* type T missing from an initialized registry fails with another message,
\* which names T.
C12_AbortMessages ==
    ret.outcome.kind = "panic" =>
        \/ ret.outcome.msg = UseBeforeInitMsg
        \/ /\ ret.arg.call = "inject"
           /\ ret.outcome.msg # UseBeforeInitMsg
           /\ Names(ret.outcome.msg, ret.arg.T)

\* T::default as a provider function.
Default(T) == [type |-> T, id |-> 0]

\* C13 register_default::<T>() is register(T::default) in every state: the
\* two build the same provider, and after it get::<T>() is Some(T::default()),
\* whatever was registered for T before, and every other type is as it was.
C13_RegisterDefaultIsRegister ==
    /\ [](\A T \in Types : register_default(d, T) = register(d, Default(T)))
    /\ [][last'.op = "register_default" =>
            /\ d' = register(d, Default(last'.T))
            /\ get(d', last'.T).out = Some(Product(Default(last'.T)))
            /\ \A U \in Types \ {last'.T} : get(d', U) = get(d, U)]_vars

\* register_default replaced a closure registered for the type, with another
\* type registered next to it
C13_Witness ==
    /\ last.op = "register_default"
    /\ hist[last.T].prev.id > 0
    /\ d[last.T] = Default(last.T)
    /\ DOMAIN d # {last.T}

\* Thread t is inside init's replacement: it has the write guard and has not
\* released it yet.
Replacing(t) == pc[t] \in {"init_replace", "init_store"}

\* C14 Writer exclusivity: while an init is replacing the holder, no
\* get_dependency is between acquiring and releasing its read access, and no
\* other init is inside its replacement.
C14_WriterExclusivity ==
    \A w \in Threads :
        Replacing(w) =>
            /\ writer = w
            /\ readers = {}
            /\ \A u \in Threads \ {w} : ~Replacing(u) /\ ~Reading(u)

\* an init is in the middle of its write while the other thread waits for
\* the lock
C14_Witness ==
    \E w \in Threads, u \in Threads :
        /\ pc[w] = "init_store"
        /\ pc[u] \in {"get_read", "init_write"}

\* No init has been called and not yet ended.
NoInitInFlight ==
    \A u \in Threads : pc[u] \notin {"init_write", "init_replace", "init_store"}

\* C15 Factory calls of concurrent get_dependency calls are not serialized:
\* while no init is in flight, a get_dependency about to take its read access
\* takes it without waiting, whichever other get_dependency calls are inside
\* their lookup or their factory.
C15_ReadersNotSerialized ==
    \A t \in Threads :
        (pc[t] = "get_read" /\ NoInitInFlight) => ENABLED ReadLock(t)

\* two threads are executing their factories at the same time
C15_Witness ==
    /\ NoInitInFlight
    /\ \A t \in Threads : pc[t] = "get_call" /\ t \in readers

\* The registrations and removals made for T, oldest first.
OpsOn(T) == SelectSeq(trail, LAMBDA e : e.T = T)

\* What the log says the map holds for T: the factory of the latest
\* operation on T if that is a registration, and nothing otherwise.
LiveEntry(T) ==
    LET ops == OpsOn(T)
    IN  IF ops = <<>> THEN None
        ELSE IF ops[Len(ops)].op = "unregister" THEN None
        ELSE Some(ops[Len(ops)].invoked)

\* C16 A type has at most one live entry: the map holds for T the factory of
\* the latest registration not followed by an unregister, and nothing else,
\* so after register(f1), register(f2) and one unregister, get::<T>() is
\* None and f1 is not back.
C16_SingleLiveEntry ==
    /\ \A T \in Types :
          /\ TypeMap_get(d, T) = LiveEntry(T)
          /\ get(d, T).out = IF LiveEntry(T) = None THEN None
                             ELSE Some(Product(LiveEntry(T).value))
    /\ (last.op = "get" /\ LiveEntry(last.T) = None)
          => last.out = None /\ last.invoked = NoFactory

\* register(f1), register(f2), one unregister, and then get returned None
C16_Witness ==
    \E T \in Types :
        /\ Len(trail) = 3
        /\ \A i \in 1..3 : trail[i].T = T
        /\ trail[1].op = "register"
        /\ trail[2].op = "register"
        /\ trail[1].invoked # trail[2].invoked
        /\ trail[3].op = "unregister"
        /\ last = Op("get", T, None, NoFactory)

\* C17 unregister::<T>() with no registration for T changes nothing: every
\* registration is as it was; and a second unregister in a row leaves what
\* the first one left.
C17_UnregisterAbsent ==
    /\ [](\A T \in Types :
            /\ T \notin DOMAIN d => unregister(d, T) = d
            /\ unregister(unregister(d, T), T) = unregister(d, T))
    /\ [][(last'.op = "unregister" /\ trail' # trail /\ last'.T \notin DOMAIN d)
            => d' = d]_vars

\* a type was unregistered twice in a row while another type stayed
\* registered
C17_Witness ==
    /\ Len(trail) = 3
    /\ trail[1].op = "register"
    /\ trail[2].op = "unregister"
    /\ trail[3] = trail[2]
    /\ trail[1].T # trail[2].T
    /\ DOMAIN d = {trail[1].T}

\* C18 Reads change nothing: the steps of a get_dependency or inject! call
\* past the lock (the lookup with DependencyProvider::get, the factory call,
\* the return of Some or None, the panic) leave the holder, and with it the
\* initialized status and the provider with its registrations, as they were.
C18_ReadsChangeNothing ==
    [][\A t \in Threads :
          (Reading(t) /\ pc'[t] # pc[t])
          => /\ holder' = holder
             /\ installed' = installed
             /\ dropped' = dropped]_vars

\* get_dependency returned a product and the registry holds the provider it
\* held, which can yield that product again
C18_Witness ==
    /\ ret.arg.call = "get_dependency"
    /\ ret.outcome.kind = "return"
    /\ ret.outcome.value.tag = "Some"
    /\ holder.tag = "Some"
    /\ get(holder.value, ret.arg.T).out = ret.outcome.value

\* C19 An aborted call leaves the registry usable: when a get_dependency or
\* inject! panics (use before init, missing registration, panicking closure)
\* its read guard is released and the lock is neither poisoned nor held, the
\* holder is what it was, no later call fails on the lock, no state is stuck,
\* and a later get_dependency returns what the installed provider holds.
C19_AbortLeavesRegistryUsable ==
    /\ [](/\ ~poisoned
          /\ ret.outcome # Panicked(PoisonMsg)
          /\ \A t \in Threads : pc[t] = "idle" => t \notin readers /\ writer # t
          /\ ~Deadlocked)
    /\ [][\A t \in Threads :
            /\ (Reading(t) /\ pc'[t] = "idle" /\ ret'.outcome.kind = "panic")
               => /\ readers' = readers \ {t}
                  /\ writer' = writer
                  /\ holder' = holder
                  /\ installed' = installed
            /\ (/\ Reading(t) /\ pc'[t] = "idle"
                /\ arg[t].call = "get_dependency"
                /\ ret'.outcome.kind = "return")
               => /\ installed.tag = "Some"
                  /\ ret'.outcome.value = DueOf(installed.value, arg[t].T)]_vars

\* a closure panicked inside get_dependency, and an init called after
\* that has completed and replaced the provider
C19_Witness ==
    /\ trail # <<>>
    /\ trail[1].op = "panic"
    /\ ret.arg.call = "init"
    /\ ret.outcome = Returned(Unit)
    /\ dropped.tag = "Some"
    /\ holder = Some(ret.arg.provider)
    /\ writer = NoThread
    /\ readers = {}

\* The closure of thread t's get_dependency has been called and has not
\* returned.
FactoryRunning(t) == pc[t] = "get_call" \/ Nested(t)

\* The get_dependency call whose closure is running for thread t.
OuterCall(t) == IF Nested(t) THEN arg[t].within ELSE arg[t]

\* C20 get_dependency keeps its read access for the whole factory call:
\* while the closure runs, the thread holds the read guard, the holder is
\* the installed provider and the closure is its entry for the type, and no
\* init gets past the write lock; so an init called by the closure itself
\* never gets the lock and never completes: it waits for ever, or the lock
\* refuses it with a panic.
C20_ReadHeldDuringFactory ==
    /\ [](\A t \in Threads :
            /\ FactoryRunning(t) =>
                  /\ t \in readers
                  /\ writer = NoThread
                  /\ holder = installed
                  /\ holder.tag = "Some"
                  /\ TypeMap_get(holder.value, OuterCall(t).T)
                         = Some(run[t].ran[1])
            /\ Nested(t) => pc[t] = "init_write" /\ ~ENABLED WriteLock(t))
    /\ [][\A t \in Threads :
            /\ FactoryRunning(t) =>
                  /\ holder' = holder
                  /\ installed' = installed
                  /\ \A u \in Threads :
                        pc[u] = "init_write" => pc'[u] # "init_replace"
            /\ Nested(t) =>
                  \/ arg'[t] = arg[t] /\ pc'[t] = pc[t] /\ t \in readers'
                  \/ /\ pc'[t] = "idle"
                     /\ ret' = Ended(t, arg[t], Panicked(WouldDeadlockMsg))]_vars

\* a closure called init from inside get_dependency: its thread waits for
\* the write lock while holding the read guard
C20_Witness ==
    \E t \in Threads :
        /\ Nested(t)
        /\ pc[t] = "init_write"
        /\ t \in readers
        /\ arg[t].provider # installed.value

====
